---- MODULE Spec2Model ----
(***************************************************************************)
(* A model of src/src/main.rs: a two-player Pong game.  GameState owns two *)
(* paddles and a ball (Entity: texture, position, velocity) and an         *)
(* optional end_text; the engine calls update() and draw().                *)
(*                                                                         *)
(* Numbers.  The program computes in f32.  The model computes in exact     *)
(* fixed point: horizontal quantities are integers counting 1/XSCALE of a  *)
(* pixel (BALL_ACC = 0.05 is one such unit), vertical quantities are       *)
(* integers counting 1/YSCALE of a pixel, YSCALE being chosen so that the  *)
(* spin division of the first MaxHits+1 paddle hits is exact (SpinExact    *)
(* records it).  f32 rounding is not modelled.                             *)
(*                                                                         *)
(* Textures.  The widths and heights of the three sprites are read from    *)
(* image files that are not part of the source; they are inputs of         *)
(* GameState::new.  Each specification below fixes the sizes it starts     *)
(* from (Assets...), chosen so that the branches of update are exercised   *)
(* within MaxFrames updates.                                               *)
(***************************************************************************)
EXTENDS Integers, Sequences, FiniteSets, TLC

VARIABLES player1, player2, ball, end_text, calls, last, frames, hits

vars == <<player1, player2, ball, end_text, calls, last, frames, hits>>

(***************************************************************************)
(* Program constants (src/src/main.rs:172-177), in pixels.                 *)
(***************************************************************************)
WINDOW_WIDTH == 640
WINDOW_HEIGHT == 480
PADDLE_SPEED == 8
BALL_SPEED == 5
PADDLE_SPIN == 4
\* BALL_ACC = 0.05 = 1 / XSCALE pixels
XSCALE == 20
BALL_ACC == 1

(***************************************************************************)
(* Bounds of the model.                                                    *)
(***************************************************************************)
\* updates while PLAYING that a run may hold
MaxFrames == 72
\* paddle hits after which no further update is explored
MaxHits == 2

\* vertical unit: 1/YSCALE pixel
YSCALE == 2 * 32 * 32 * 32 * 15

NoText == "None"
P1Wins == "Player 1 win!"
P2Wins == "Player 2 win!"

KeySets == [W : BOOLEAN, S : BOOLEAN, Up : BOOLEAN, Down : BOOLEAN]

(***************************************************************************)
(* Entity                                                                  *)
(***************************************************************************)
Vec2(x, y) == [x |-> x, y |-> y]

\* Entity::new
Entity(texture, position, velocity) ==
    [texture |-> texture, position |-> position, velocity |-> velocity]

\* Entity::width, in horizontal units
width(e) == e.texture.width * XSCALE

\* Entity::height, in vertical units
height(e) == e.texture.height * YSCALE

\* fix_position without the lower clamp
fix_position_no_floor(e) ==
    LET max_y == WINDOW_HEIGHT * YSCALE - height(e)
    IN  IF e.position.y > max_y THEN [e EXCEPT !.position.y = max_y] ELSE e

\* Entity::fix_position
fix_position(e) ==
    LET max_y == WINDOW_HEIGHT * YSCALE - height(e)
    IN  IF e.position.y > max_y
        THEN [e EXCEPT !.position.y = max_y]
        ELSE IF e.position.y < 0
             THEN [e EXCEPT !.position.y = 0]
             ELSE e

\* Entity::bounds
bounds(e) == [x |-> e.position.x, y |-> e.position.y,
              width |-> width(e), height |-> height(e)]

\* centre that forgets the half sizes
centre_top_left(e) == Vec2(e.position.x, e.position.y)

\* Entity::centre
centre(e) == Vec2(e.position.x + width(e) \div 2,
                  e.position.y + height(e) \div 2)

\* intersects that compares the horizontal extents only
intersects_x_only(a, b) ==
    /\ a.x < b.x + b.width
    /\ a.x + a.width > b.x

\* tetra's Rectangle::intersects, as called in update
intersects(a, b) ==
    /\ a.x < b.x + b.width
    /\ a.x + a.width > b.x
    /\ a.y < b.y + b.height
    /\ a.y + a.height > b.y

\* f32::signum: 1.0 for a positive number and +0.0, -1.0 for a negative one
signum(v) == IF v >= 0 THEN 1 ELSE -1

(***************************************************************************)
(* GameState::new                                                          *)
(***************************************************************************)
Texture(w, h) == [width |-> w, height |-> h]

\* The three sprites: player1.png, player2.png, ball.png.
\* A paddle 128 high has room to leave the ball's row; a paddle 480 high has
\* none and stays where it is.
\* player1 can let the ball pass
AssetsDodge1 == [player1 |-> Texture(24, 128), player2 |-> Texture(24, 480),
                 ball |-> Texture(24, 128)]
\* as AssetsDodge1, with a small ball
AssetsPass == [player1 |-> Texture(24, 128), player2 |-> Texture(24, 480),
               ball |-> Texture(24, 16)]
\* player1 returns the ball on the first update, player2 can let it pass
AssetsDodge2 == [player1 |-> Texture(292, 480), player2 |-> Texture(24, 128),
                 ball |-> Texture(24, 16)]
\* player1 returns the ball after 15 updates, from up to 120 pixels off centre
AssetsBounce == [player1 |-> Texture(224, 128), player2 |-> Texture(116, 480),
                 ball |-> Texture(16, 128)]

Assets == {AssetsDodge1, AssetsDodge2}

\* new_entities with player1's horizontal position given to player2 too
new_entities_p2_left(a) ==
    [player1 |-> Entity(a.player1,
                        Vec2(16 * XSCALE,
                             ((WINDOW_HEIGHT - a.player1.height) * YSCALE) \div 2),
                        Vec2(0, 0)),
     player2 |-> Entity(a.player2,
                        Vec2(16 * XSCALE,
                             ((WINDOW_HEIGHT - a.player2.height) * YSCALE) \div 2),
                        Vec2(0, 0)),
     ball |-> Entity(a.ball,
                     Vec2(((WINDOW_WIDTH - a.ball.width) * XSCALE) \div 2,
                          ((WINDOW_HEIGHT - a.ball.height) * YSCALE) \div 2),
                     Vec2(-(BALL_SPEED * XSCALE), 0))]

\* lines 67-88
new_entities(a) ==
    [player1 |-> Entity(a.player1,
                        Vec2(16 * XSCALE,
                             ((WINDOW_HEIGHT - a.player1.height) * YSCALE) \div 2),
                        Vec2(0, 0)),
     player2 |-> Entity(a.player2,
                        Vec2((WINDOW_WIDTH - a.player2.width - 16) * XSCALE,
                             ((WINDOW_HEIGHT - a.player2.height) * YSCALE) \div 2),
                        Vec2(0, 0)),
     ball |-> Entity(a.ball,
                     Vec2(((WINDOW_WIDTH - a.ball.width) * XSCALE) \div 2,
                          ((WINDOW_HEIGHT - a.ball.height) * YSCALE) \div 2),
                     Vec2(-(BALL_SPEED * XSCALE), 0))]

\* new that starts with an end text
new_ended(a) ==
    [player1 |-> new_entities(a).player1, player2 |-> new_entities(a).player2,
     ball |-> new_entities(a).ball, end_text |-> P2Wins]

\* lines 85-91
new(a) ==
    [player1 |-> new_entities(a).player1, player2 |-> new_entities(a).player2,
     ball |-> new_entities(a).ball, end_text |-> NoText]

\* What the last call was and did: op (new, update, draw), playing (end_text
\* was absent when it began), hit (the paddle update found hit), clamped
\* (fix_position changed a paddle), vy_in (the ball's vertical velocity when
\* the wall step began), bounce (the wall step's condition held), exact (the
\* spin division was exact).
Call(op, playing) ==
    [op |-> op, playing |-> playing, hit |-> "none", clamped |-> FALSE,
     vy_in |-> 0, bounce |-> FALSE, exact |-> TRUE]

InitWith(a) ==
    /\ player1 = new(a).player1
    /\ player2 = new(a).player2
    /\ ball = new(a).ball
    /\ end_text = new(a).end_text
    /\ calls = <<>>
    /\ last = Call("new", TRUE)
    /\ frames = 0
    /\ hits = 0

(***************************************************************************)
(* GameState::update, step by step                                         *)
(***************************************************************************)
\* ended that never sees the text
ended_never(text) == FALSE

\* line 97
ended(text) == text # NoText

\* key_move with the two directions exchanged
key_move_inverted(e, up, down) ==
    LET a == IF up THEN [e EXCEPT !.position.y = @ + PADDLE_SPEED * YSCALE] ELSE e
    IN  IF down THEN [a EXCEPT !.position.y = @ - PADDLE_SPEED * YSCALE] ELSE a

\* lines 101-106 and 109-114: the paddle moved by its two keys
key_move(e, up, down) ==
    LET a == IF up THEN [e EXCEPT !.position.y = @ - PADDLE_SPEED * YSCALE] ELSE e
    IN  IF down THEN [a EXCEPT !.position.y = @ + PADDLE_SPEED * YSCALE] ELSE a

\* lines 101-107 and 109-115: the paddle moved by its two keys, then clamped
move_paddle(e, up, down) == fix_position(key_move(e, up, down))

\* line 117
move_ball(b) ==
    [b EXCEPT !.position = Vec2(b.position.x + b.velocity.x,
                                b.position.y + b.velocity.y)]

\* lines 119-126: which paddle the ball hit, player1 tested first
paddle_hit(b, p1, p2) ==
    IF intersects(bounds(b), bounds(p1)) THEN "player1"
    ELSE IF intersects(bounds(b), bounds(p2)) THEN "player2"
    ELSE "none"

\* flip_x that forgets the acceleration
flip_x_no_acc(vx) == -vx

\* flip_x that slows the ball down
flip_x_slows(vx) == -(vx - BALL_ACC * signum(vx))

\* line 130
flip_x(vx) == -(vx + BALL_ACC * signum(vx))

\* line 134, times paddle.height(): the numerator of offset
offset_num(paddle, b) == centre(paddle).y - centre(b).y

\* spin with the sign of the offset kept
spin_towards(paddle, b) ==
    (PADDLE_SPIN * offset_num(paddle, b)) \div paddle.texture.height

\* line 137: PADDLE_SPIN * -offset, offset = offset_num / paddle.height()
spin(paddle, b) ==
    -((PADDLE_SPIN * offset_num(paddle, b)) \div paddle.texture.height)

\* whether the division of line 134 is exact in the model's vertical unit
spin_exact(paddle, b) ==
    (PADDLE_SPIN * offset_num(paddle, b)) % paddle.texture.height = 0

\* collide that also moves the ball to the paddle's right edge
collide_pushed_out(b, paddle) ==
    [b EXCEPT !.velocity = Vec2(flip_x(b.velocity.x),
                                b.velocity.y + spin(paddle, b)),
              !.position.x = paddle.position.x + width(paddle)]

\* lines 128-138
collide(b, paddle) ==
    [b EXCEPT !.velocity = Vec2(flip_x(b.velocity.x),
                                b.velocity.y + spin(paddle, b))]

\* line 140
at_wall(b) ==
    \/ b.position.y <= 0
    \/ b.position.y + height(b) >= WINDOW_HEIGHT * YSCALE

\* wall_bounce that forgets the top wall
wall_bounce_bottom_only(b) ==
    IF b.position.y + height(b) >= WINDOW_HEIGHT * YSCALE
    THEN [b EXCEPT !.velocity.y = -b.velocity.y] ELSE b

\* lines 140-142
wall_bounce(b) ==
    IF at_wall(b) THEN [b EXCEPT !.velocity.y = -b.velocity.y] ELSE b

\* win_check that forgets player 1
win_check_no_p1(b, text) ==
    IF b.position.x < 0 THEN P2Wins ELSE text

\* win_check that waits until the whole ball has left on the left
win_check_fully_out(b, text) ==
    IF b.position.x + width(b) < 0 THEN P2Wins
    ELSE IF b.position.x > WINDOW_WIDTH * XSCALE THEN P1Wins
    ELSE text

\* win_check with the two messages swapped
win_check_swapped(b, text) ==
    IF b.position.x < 0 THEN P1Wins
    ELSE IF b.position.x > WINDOW_WIDTH * XSCALE THEN P2Wins
    ELSE text

\* lines 144-148
win_check(b, text) ==
    IF b.position.x < 0 THEN P2Wins
    ELSE IF b.position.x > WINDOW_WIDTH * XSCALE THEN P1Wins
    ELSE text

Update(keys) ==
    IF ended(end_text)
    THEN /\ last' = Call("update", FALSE)
         /\ calls' = <<>>
         /\ UNCHANGED <<player1, player2, ball, end_text, frames, hits>>
    ELSE LET p1 == move_paddle(player1, keys.W, keys.S)
             p2 == move_paddle(player2, keys.Up, keys.Down)
             b1 == move_ball(ball)
             h  == paddle_hit(b1, p1, p2)
             pd == IF h = "player1" THEN p1 ELSE p2
             b2 == IF h = "none" THEN b1 ELSE collide(b1, pd)
             b3 == wall_bounce(b2)
         IN  /\ frames < MaxFrames
             /\ hits < MaxHits
             /\ player1' = p1
             /\ player2' = p2
             /\ ball' = b3
             /\ end_text' = win_check(b3, end_text)
             /\ calls' = <<>>
             /\ last' = [op |-> "update", playing |-> TRUE, hit |-> h,
                         clamped |-> \/ p1 # key_move(player1, keys.W, keys.S)
                                     \/ p2 # key_move(player2, keys.Up, keys.Down),
                         vy_in |-> b2.velocity.y,
                         bounce |-> at_wall(b2),
                         exact |-> (h = "none" \/ spin_exact(pd, b1))]
             /\ frames' = frames + 1
             /\ hits' = IF h = "none" THEN hits ELSE hits + 1

(***************************************************************************)
(* GameState::draw: the draw calls it issues after clearing the screen     *)
(***************************************************************************)
\* draw_calls without the early return of line 161
draw_calls_no_return ==
    (IF end_text # NoText
     THEN << [what |-> "text", string |-> end_text,
              at |-> Vec2((WINDOW_WIDTH \div 2 - 140) * XSCALE,
                          (WINDOW_HEIGHT \div 2 - 22) * YSCALE)] >>
     ELSE << >>)
    \o << [what |-> "player1", at |-> player1.position],
          [what |-> "player2", at |-> player2.position],
          [what |-> "ball", at |-> ball.position] >>

\* lines 154-168
draw_calls ==
    IF end_text # NoText
    THEN << [what |-> "text", string |-> end_text,
             at |-> Vec2((WINDOW_WIDTH \div 2 - 140) * XSCALE,
                         (WINDOW_HEIGHT \div 2 - 22) * YSCALE)] >>
    ELSE << [what |-> "player1", at |-> player1.position],
            [what |-> "player2", at |-> player2.position],
            [what |-> "ball", at |-> ball.position] >>

Draw ==
    /\ calls' = draw_calls
    /\ last' = Call("draw", end_text = NoText)
    /\ UNCHANGED <<player1, player2, ball, end_text, frames, hits>>

UpdateStep == \E keys \in KeySets : Update(keys)

Next == UpdateStep \/ Draw

Init == \E a \in Assets : InitWith(a)

Spec == Init /\ [][Next]_vars

\* update calls alone, from the sprites of AssetsPass, by an engine that keeps
\* calling update
InitPass == InitWith(AssetsPass)

FairSpec == InitPass /\ [][UpdateStep]_vars /\ WF_vars(UpdateStep)

\* no key is ever held
NoKeys == [W |-> FALSE, S |-> FALSE, Up |-> FALSE, Down |-> FALSE]

UpdateIdle == Update(NoKeys)

NextIdle == UpdateIdle \/ Draw

SpecIdle == Init /\ [][NextIdle]_vars

\* update calls alone, from the sprites of AssetsBounce
InitBounce == InitWith(AssetsBounce)

SpecBounce == InitBounce /\ [][UpdateStep]_vars

(***************************************************************************)
(* Properties                                                              *)
(***************************************************************************)
Abs(n) == IF n < 0 THEN -n ELSE n

\* the call that led to this state was an update that began while PLAYING
PlayingUpdate == last.op = "update" /\ last.playing

\* the paddle the last update found hit
HitPaddle == IF last.hit = "player1" THEN player1 ELSE player2

\* C1: once end_text is present, an update call changes neither paddle, nor
\* the ball's position or velocity, nor the message, whatever keys are held.
C1_EndedUpdateIsNoOp ==
    [][(end_text # NoText /\ last'.op = "update")
         => /\ player1' = player1
            /\ player2' = player2
            /\ ball' = ball
            /\ end_text' = end_text]_vars

\* an update call was made after the game had ended
C1_Witness == end_text # NoText /\ last.op = "update" /\ ~last.playing

\* C2 as stated: a PLAYING update that ends with the ball's right edge past
\* the window and its left edge not below 0 sets end_text to "Player 1 win!".
C2_RightEdgeWins ==
    (/\ PlayingUpdate
     /\ ball.position.x + width(ball) > WINDOW_WIDTH * XSCALE
     /\ ball.position.x >= 0)
        => end_text = P1Wins

\* C2 amended: a PLAYING update that ends with the ball's left edge past the
\* window (ball.position.x > 640) sets end_text to "Player 1 win!".
C2_LeftEdgePastWindowWins ==
    (PlayingUpdate /\ ball.position.x > WINDOW_WIDTH * XSCALE)
        => end_text = P1Wins

\* player 1 has just won
C2_Witness ==
    /\ PlayingUpdate
    /\ ball.position.x > WINDOW_WIDTH * XSCALE
    /\ end_text = P1Wins

\* C3: a PLAYING update that ends with ball.position.x < 0 sets end_text to
\* "Player 2 win!", also when it processed a paddle collision.
C3_LeftEdgeBelowZeroWins ==
    (PlayingUpdate /\ ball.position.x < 0) => end_text = P2Wins

\* player 2 has just won in an update that also found player1 hit
C3_Witness ==
    /\ PlayingUpdate
    /\ ball.position.x < 0
    /\ last.hit = "player1"
    /\ end_text = P2Wins

\* 0 <= position.y <= WINDOW_HEIGHT - height
InVerticalBounds(e) ==
    /\ 0 <= e.position.y
    /\ e.position.y <= WINDOW_HEIGHT * YSCALE - height(e)

\* vertical positions from 120 pixels above the window to 120 below it, in
\* steps of 4 pixels
FixInputs == {i * 4 * YSCALE : i \in -30 .. 150}

\* C4: in the initial state and after every update both paddles are within
\* the vertical bounds, and fix_position brings any vertical position of a
\* paddle within them.
C4_PaddlesInBounds ==
    /\ InVerticalBounds(player1)
    /\ InVerticalBounds(player2)
    /\ last.op = "new" =>
         \A y \in FixInputs :
            /\ InVerticalBounds(fix_position([player1 EXCEPT !.position.y = y]))
            /\ InVerticalBounds(fix_position([player2 EXCEPT !.position.y = y]))

\* an update in which fix_position moved a paddle back, which is at the top
C4_Witness ==
    /\ PlayingUpdate
    /\ last.clamped
    /\ player1.position.y = 0
    /\ player1.texture.height < WINDOW_HEIGHT

\* C5: an update that finds a paddle hit turns the horizontal velocity v into
\* -(v + 0.05 * sign(v)): the magnitude grows by 0.05, the sign flips.
C5_HitFlipsAndAccelerates ==
    [][(last'.op = "update" /\ last'.hit # "none")
         => /\ Abs(ball'.velocity.x) = Abs(ball.velocity.x) + 1
            /\ (ball.velocity.x < 0 => ball'.velocity.x > 0)
            /\ (ball.velocity.x > 0 => ball'.velocity.x < 0)
            /\ (ball.velocity.x = -100 => ball'.velocity.x = 101)]_vars

\* the first hit: -5.0 has become 5.05
C5_Witness ==
    /\ PlayingUpdate
    /\ last.hit = "player1"
    /\ hits = 1
    /\ ball.velocity.x = 101

\* C6: in a PLAYING update the wall step negates the vertical velocity it
\* finds (after the move and the spin) when ball.position.y <= 0 or
\* ball.position.y + height >= WINDOW_HEIGHT, leaves it as it is otherwise,
\* and the ball's vertical position is its old one plus its old velocity.
C6_WallStepNegates ==
    [][(last'.op = "update" /\ last'.playing)
         => /\ ball'.position.y = ball.position.y + ball.velocity.y
            /\ IF \/ ball'.position.y <= 0
                  \/ ball'.position.y + ball'.texture.height * YSCALE
                        >= WINDOW_HEIGHT * YSCALE
               THEN ball'.velocity.y = -last'.vy_in
               ELSE ball'.velocity.y = last'.vy_in]_vars

\* a ball moving upwards has reached the top wall and now moves downwards
C6_Witness ==
    /\ PlayingUpdate
    /\ ball.position.y <= 0
    /\ last.vy_in < 0
    /\ ball.velocity.y > 0

\* C7: end_text is absent in the initial state, and once present it is never
\* cleared and never changes, over any sequence of update and draw calls.
C7_EndTextSetOnce ==
    /\ end_text = NoText
    /\ [][end_text # NoText => end_text' = end_text]_vars

\* the text is present and a draw call has been made
C7_Witness == end_text = P1Wins /\ last.op = "draw"

\* C8: from the ball at the centre with velocity (-5.0, 0.0), a run in which
\* no paddle ever intersects the ball reaches ball.position.x < 0 with
\* "Player 2 win!" set by that update, and the ball's position is frozen
\* from then on.
C8_UnhinderedBallLosesForPlayer1 ==
    /\ <>(last.hit # "none" \/ (ball.position.x < 0 /\ end_text = P2Wins))
    /\ []((PlayingUpdate /\ ball.position.x < 0) => end_text = P2Wins)
    /\ [][end_text = P2Wins => ball'.position = ball.position]_vars

\* player 2 has won without any paddle hit, and an update came after
C8_Witness ==
    /\ hits = 0
    /\ ball.position.x < 0
    /\ end_text = P2Wins
    /\ last.op = "update"
    /\ ~last.playing

\* change = PADDLE_SPIN * (ball centre - paddle centre) / paddle height
SpinIs(paddle, b, change) ==
    LET num == PADDLE_SPIN * (centre(b).y - centre(paddle).y)
    IN  /\ num % paddle.texture.height = 0
        /\ change = num \div paddle.texture.height

\* C9 as stated: an update that finds a paddle hit changes the vertical
\* velocity by exactly 4.0 * (ball_centre.y - paddle_centre.y) / height.
C9_UpdateChangesVyBySpin ==
    [][(last'.op = "update" /\ last'.hit = "player1"
          => SpinIs(player1', ball', ball'.velocity.y - ball.velocity.y))
       /\ (last'.op = "update" /\ last'.hit = "player2"
          => SpinIs(player2', ball', ball'.velocity.y - ball.velocity.y))]_vars

\* C9 amended: an update that finds a paddle hit adds exactly
\* 4.0 * (ball_centre.y - paddle_centre.y) / height to the vertical velocity
\* before its wall step (which may then negate the sum): more when the ball's
\* centre is below the paddle's, less when above, nothing when level.
C9_SpinBeforeWallStep ==
    [][(last'.op = "update" /\ last'.hit # "none")
         => LET pd == IF last'.hit = "player1" THEN player1' ELSE player2'
                change == last'.vy_in - ball.velocity.y
                below == centre(ball').y - centre(pd).y
            IN  /\ SpinIs(pd, ball', change)
                /\ (below > 0 => change > 0)
                /\ (below < 0 => change < 0)
                /\ (below = 0 => change = 0)
                /\ (~last'.bounce => ball'.velocity.y = last'.vy_in)]_vars

\* a hit below the paddle's centre has sped the ball up downwards
C9_Witness ==
    /\ PlayingUpdate
    /\ last.hit = "player1"
    /\ centre(ball).y > centre(player1).y
    /\ ball.velocity.y > 0

\* C10: when a paddle hit is found, the offset
\* (paddle_centre.y - ball_centre.y) / paddle_height is between -1 and 1.
C10_OffsetWithinOne ==
    (PlayingUpdate /\ last.hit # "none")
        => Abs(centre(HitPaddle).y - centre(ball).y) <= height(HitPaddle)

\* a hit more than three quarters of the paddle's height off its centre
C10_Witness ==
    /\ PlayingUpdate
    /\ last.hit = "player1"
    /\ 4 * Abs(centre(player1).y - centre(ball).y) > 3 * height(player1)

\* C11: the ball's rectangle never intersects both paddles' rectangles, so
\* the order of the two tests never decides which paddle is hit.
C11_NeverBothPaddles ==
    ~(/\ intersects(bounds(ball), bounds(player1))
      /\ intersects(bounds(ball), bounds(player2)))

\* the second test has found player2 hit
C11_Witness ==
    /\ PlayingUpdate
    /\ last.hit = "player2"
    /\ intersects(bounds(ball), bounds(player2))
    /\ ~intersects(bounds(ball), bounds(player1))

\* C12: draw changes no position, velocity or end_text; when ENDED it issues
\* the one draw call of the text, when PLAYING the three draw calls of
\* player1, player2 and the ball at their positions, and no text.
C12_DrawRendersAndKeeps ==
    [][last'.op = "draw"
         => /\ player1' = player1
            /\ player2' = player2
            /\ ball' = ball
            /\ end_text' = end_text
            /\ IF end_text # NoText
               THEN /\ Len(calls') = 1
                    /\ calls'[1].what = "text"
                    /\ calls'[1].string = end_text
               ELSE /\ Len(calls') = 3
                    /\ calls'[1] = [what |-> "player1", at |-> player1.position]
                    /\ calls'[2] = [what |-> "player2", at |-> player2.position]
                    /\ calls'[3] = [what |-> "ball", at |-> ball.position]]_vars

\* a draw call after player 2 has won
C12_Witness ==
    /\ last.op = "draw"
    /\ end_text = P2Wins
    /\ Len(calls) = 1

\* the change of a paddle's y that its two keys ask for
KeyDelta(up, down) ==
    IF up /\ ~down THEN -(PADDLE_SPEED * YSCALE)
    ELSE IF down /\ ~up THEN PADDLE_SPEED * YSCALE
    ELSE 0

\* y brought into [0, WINDOW_HEIGHT - height]
Clamped(y, e) ==
    LET max_y == (WINDOW_HEIGHT - e.texture.height) * YSCALE
    IN  IF y > max_y THEN max_y ELSE IF y < 0 THEN 0 ELSE y

\* C13: a PLAYING update moves player1, before clamping, by -8 on W alone,
\* by +8 on S alone and by 0 otherwise, and player2 likewise on Up and Down;
\* no paddle answers the other's keys or moves more than 8.
C13_KeysMovePaddles ==
    [][\A keys \in KeySets :
         (end_text = NoText /\ Update(keys))
            => /\ player1'.position.y
                    = Clamped(player1.position.y + KeyDelta(keys.W, keys.S), player1)
               /\ player2'.position.y
                    = Clamped(player2.position.y + KeyDelta(keys.Up, keys.Down), player2)
               /\ Abs(player1'.position.y - player1.position.y) <= PADDLE_SPEED * YSCALE
               /\ Abs(player2'.position.y - player2.position.y) <= PADDLE_SPEED * YSCALE
               /\ player1'.position.x = player1.position.x
               /\ player2'.position.x = player2.position.x]_vars

\* after one update player1 is 8 pixels higher, and player2, as high as the
\* window, was moved and brought back
C13_Witness ==
    /\ PlayingUpdate
    /\ frames = 1
    /\ 2 * player1.position.y + height(player1)
           = (WINDOW_HEIGHT - 2 * PADDLE_SPEED) * YSCALE
    /\ player2.position.y = 0
    /\ last.clamped

\* C14: at the end of every PLAYING update, also of the one that ends the
\* game, the ball's position is its position before plus its velocity
\* before; no later step of the update touches it.
C14_BallMovesByOldVelocity ==
    [][(last'.op = "update" /\ last'.playing)
         => /\ ball'.position.x = ball.position.x + ball.velocity.x
            /\ ball'.position.y = ball.position.y + ball.velocity.y]_vars

\* the game has just ended, the ball outside the window, after one hit
C14_Witness ==
    /\ PlayingUpdate
    /\ end_text # NoText
    /\ hits = 1
    /\ ball.position.x < 0

\* C15: at the end of an update that detects a hit on player1 the ball's
\* horizontal velocity is positive, and after a hit on player2 it is
\* negative, whatever the keys were.
C15_HitSendsBallAway ==
    PlayingUpdate
        => /\ (last.hit = "player1" => ball.velocity.x > 0)
           /\ (last.hit = "player2" => ball.velocity.x < 0)

\* C16: at the end of every PLAYING update that leaves the ball at or above
\* the top wall its vertical velocity is >= 0, and at or below the bottom
\* wall it is <= 0, also when a spin was applied in the same update.
C16_BallAtWallHeadsBack ==
    PlayingUpdate
        => /\ (ball.position.y <= 0 => ball.velocity.y >= 0)
           /\ (ball.position.y + height(ball) >= WINDOW_HEIGHT * YSCALE
                  => ball.velocity.y <= 0)

\* a paddle has hit the ball in the update that took it to the top wall
C16_Witness ==
    /\ PlayingUpdate
    /\ last.hit # "none"
    /\ last.bounce
    /\ ball.position.y <= 0
    /\ ball.velocity.y > 0

\* C17: the ball's horizontal velocity is never 0 and never below 5.0 in
\* magnitude, its magnitude never decreases from one state to the next, and
\* it changes only in an update that detects a paddle hit.
C17_HorizontalSpeedOnlyGrows ==
    [][/\ Abs(ball.velocity.x) >= BALL_SPEED * XSCALE
       /\ Abs(ball'.velocity.x) >= Abs(ball.velocity.x)
       /\ ball'.velocity.x # ball.velocity.x
             => /\ last'.op = "update"
                /\ last'.playing
                /\ last'.hit # "none"]_vars

\* two hits have raised the speed twice
C17_Witness ==
    /\ hits = 2
    /\ Abs(ball.velocity.x) = (BALL_SPEED * XSCALE) + 2 * BALL_ACC

\* C18: while no key is ever held, both paddles stay vertically centred, the
\* ball's vertical velocity stays 0 and its vertical position the initial
\* one: every paddle hit has offset 0 and no wall bounce occurs.
C18_IdleGameStaysCentred ==
    /\ 2 * player1.position.y + height(player1) = WINDOW_HEIGHT * YSCALE
    /\ 2 * player2.position.y + height(player2) = WINDOW_HEIGHT * YSCALE
    /\ 2 * ball.position.y + height(ball) = WINDOW_HEIGHT * YSCALE
    /\ ball.velocity.y = 0
    /\ ~last.bounce
    /\ (PlayingUpdate /\ last.hit # "none")
          => offset_num(HitPaddle, ball) = 0

\* both paddles have returned the ball
C18_Witness ==
    /\ PlayingUpdate
    /\ last.hit = "player2"
    /\ hits = 2
    /\ ball.velocity.x < 0

\* the vertical unit divides every spin computed
SpinExact == last.exact

====
